---- MODULE Spec2Model ----
(***************************************************************************)
(* Model of the project-init ("pi") template materialization pipeline:     *)
(* init_helper of src/src/util.rs (the binary's orchestrator) and of       *)
(* src/src/lib.rs (the library's orchestrator), with the render functions  *)
(* of src/src/render.rs and the VCS initializers of src/src/repo.rs.       *)
(*                                                                         *)
(* Strings are sequences of atoms (indivisible chunks of characters); the  *)
(* atom "/" is the path separator.  A template string is a sequence of     *)
(* pieces: a literal atom or a {{name}} token.  Paths of the file system   *)
(* are sequences of segments relative to the working directory, in which   *)
(* the target root is created.                                             *)
(***************************************************************************)
EXTENDS Integers, Sequences, FiniteSets, TLC

VARIABLES
    variant,          \* "util" (src/src/util.rs) or "lib" (src/src/lib.rs)
    project,          \* the manifest as written in template.toml
    config,           \* the global settings as written in ~/.pi.toml
    force,            \* the force flag
    sources,          \* readable template sources under project.path
    fs0,              \* the file system as the run found it
    writes,           \* the outcome of file.write in each step that writes
    foreign,          \* files of the target owned by another user
    disk,             \* ~/.pi.toml and the template.toml files as main finds them
    previous,         \* the tree a completed run of the same manifest left, if any
    fs,               \* the file system below the target: [dirs, files]
    pc,               \* position of init_helper
    license,          \* the resolved license (an Option)
    license_contents, \* the built-in text to emit (an Option)
    keys,             \* the HashBuilder
    files,            \* the VecBuilder returned by render_files
    version_control,  \* the resolved version control tool (an Option)
    vcs,              \* what the VCS initializer did
    exit,             \* the exit status passed to the platform, or RUNNING
    log               \* the file system and process operations, in order

inputs == <<variant, project, config, force, sources, fs0, writes, foreign, disk,
            previous>>

vars == <<inputs, fs, pc, license, license_contents, keys, files,
          version_control, vcs, exit, log>>

----------------------------------------------------------------------------
(* Bounds of the model *)

MaxDirs == 2

MaxFiles == 2

MaxTemplates == 1

----------------------------------------------------------------------------
(* Option values *)

NONE == "<none>"

IsSome(o) == o # NONE

\* Option::or
OptionOr(a, b) == IF IsSome(a) THEN a ELSE b

----------------------------------------------------------------------------
(* Strings, template strings and rustache rendering *)

L(s) == [k |-> "lit", v |-> s]

V(s) == [k |-> "var", v |-> s]

Str(s) == [t |-> "str", s |-> s, l |-> <<>>]

NonStr == [t |-> "int", s |-> <<>>, l |-> <<>>]

Vec(l) == [t |-> "vec", s |-> <<>>, l |-> l]

RECURSIVE Concat(_)
Concat(ss) == IF ss = <<>> THEN <<>> ELSE Head(ss) \o Concat(Tail(ss))

\* HashBuilder::insert: a later insert of the same key replaces the value
HashInsert(hash, key, value) ==
    [x \in DOMAIN hash \cup {key} |-> IF x = key THEN value ELSE hash[x]]

\* the text a {{key}} token renders to: the value, the items of a list one
\* after the other, nothing when the key is not bound
ValueText(hash, key) ==
    IF key \notin DOMAIN hash THEN <<>>
    ELSE IF hash[key].t = "vec" THEN Concat(hash[key].l)
    ELSE hash[key].s

RECURSIVE HashRender(_, _)
HashRender(hash, template) ==
    IF template = <<>> THEN <<>>
    ELSE LET p == Head(template)
         IN (IF p.k = "lit" THEN <<p.v>> ELSE ValueText(hash, p.v))
              \o HashRender(hash, Tail(template))

\* the text of a template string as written (tokens not substituted)
RECURSIVE RawText(_)
RawText(template) ==
    IF template = <<>> THEN <<>>
    ELSE LET p == Head(template)
         IN (IF p.k = "lit" THEN <<p.v>> ELSE <<"{{", p.v, "}}">>)
              \o RawText(Tail(template))

----------------------------------------------------------------------------
(* Paths *)

\* the segments of a path string, split at "/", empty segments dropped
RECURSIVE SplitPath(_, _, _)
SplitPath(s, cur, acc) ==
    IF s = <<>> THEN (IF cur = <<>> THEN acc ELSE Append(acc, cur))
    ELSE IF Head(s) = "/"
         THEN SplitPath(Tail(s), <<>>, IF cur = <<>> THEN acc ELSE Append(acc, cur))
         ELSE SplitPath(Tail(s), Append(cur, Head(s)), acc)

\* the path a path string names, relative to the working directory
Segments(s) == SplitPath(s, <<>>, <<>>)

\* Path::join of a relative path: "base/s" ("base/" when s is empty)
PathJoin(base, s) == base \o <<"/">> \o s

Parent(p) == SubSeq(p, 1, Len(p) - 1)

\* the working directory, in which the target is created
Cwd == <<>>

\* a path string naming a directory: empty or ending in the separator
NamesDirectory(s) == s = <<>> \/ s[Len(s)] = "/"

----------------------------------------------------------------------------
(* The file system below the target *)

\* permission sets: a newly created file, and set_mode(0o755)
ModeDefault == {"ur", "uw", "gr", "or"}

Mode755 == {"ur", "uw", "ux", "gr", "gx", "or", "ox"}

Event(stage, op, path, ok) == [stage |-> stage, op |-> op, path |-> path, ok |-> ok]

\* is_dir in the place of exists: a target that is a regular file is not seen
PathExistsDirOnly(f, p) == p \in f.dirs

\* Path::exists
PathExists(f, p) == p \in f.dirs \/ p \in DOMAIN f.files

\* a directory: the working directory or a directory below it
IsDir(f, p) == p = Cwd \/ p \in f.dirs

\* fs::create_dir succeeds when the path is new and its parent is a directory
CanCreateDir(f, p) ==
    /\ p # Cwd
    /\ ~PathExists(f, p)
    /\ IsDir(f, Parent(p))

\* fs::create_dir with the result dropped (let _ = ...): non-recursive
CreateDir(f, p) == IF CanCreateDir(f, p) THEN [f EXCEPT !.dirs = @ \cup {p}] ELSE f

\* create_new in the place of create: an existing file is an error
CanCreateNewFile(f, s) ==
    /\ ~NamesDirectory(s)
    /\ ~PathExists(f, Segments(s))
    /\ IsDir(f, Parent(Segments(s)))

\* File::create succeeds when the path names no directory and its parent is one
CanCreateFile(f, s) ==
    /\ ~NamesDirectory(s)
    /\ ~IsDir(f, Segments(s))
    /\ IsDir(f, Parent(Segments(s)))

\* File::create: a new empty file, or an existing one truncated to 0 bytes
FileCreate(f, p) ==
    [f EXCEPT !.files =
        [q \in DOMAIN f.files \cup {p} |->
            IF q = p
            THEN [content |-> <<>>,
                  mode |-> IF p \in DOMAIN f.files THEN f.files[p].mode ELSE ModeDefault]
            ELSE f.files[q]]]

\* the bytes that reach the file: all of them, a proper prefix (Ok(n) with n
\* less than the length), or none (Err)
Written(contents, outcome) ==
    CASE outcome = "full" -> contents
      [] outcome = "short" -> SubSeq(contents, 1, Len(contents) - 1)
      [] OTHER -> <<>>

\* let _ = file.write(contents) on a file just created: the result is dropped
FileWrite(f, p, contents, outcome) ==
    [f EXCEPT !.files[p].content = Written(contents, outcome)]

\* let _ = fs::set_permissions(..): refused for a file of another user, and
\* the result is dropped
SetPermissions(f, p, mode, others) ==
    IF p \in others THEN f ELSE [f EXCEPT !.files[p].mode = mode]

----------------------------------------------------------------------------
(* src/src/render.rs *)

RECURSIVE RenderAll(_, _)
RenderAll(hash, templates) ==
    IF templates = <<>> THEN <<>>
    ELSE <<HashRender(hash, Head(templates))>> \o RenderAll(hash, Tail(templates))

\* the first failure ends the loop, as create_dir(subdir)? would
RECURSIVE create_dirs_until_failure(_, _, _)
create_dirs_until_failure(directories, nm, st) ==
    IF directories = <<>> THEN st
    ELSE LET p == Segments(PathJoin(nm, Head(directories)))
             after == [fs |-> CreateDir(st.fs, p),
                       log |-> Append(st.log,
                                  Event("dirs", "create_dir", p, CanCreateDir(st.fs, p)))]
         IN IF CanCreateDir(st.fs, p)
            THEN create_dirs_until_failure(Tail(directories), nm, after)
            ELSE after

\* Create::create_dirs: every entry is attempted, in order, failures dropped
RECURSIVE create_dirs(_, _, _)
create_dirs(directories, nm, st) ==
    IF directories = <<>> THEN st
    ELSE LET p == Segments(PathJoin(nm, Head(directories)))
         IN create_dirs(Tail(directories), nm,
                [fs |-> CreateDir(st.fs, p),
                 log |-> Append(st.log,
                            Event("dirs", "create_dir", p, CanCreateDir(st.fs, p)))])

\* the directory names used as written, not substituted
render_dirs_unsubstituted(directories, hash, nm, st) ==
    create_dirs([i \in DOMAIN directories |-> RawText(directories[i])], nm, st)

\* render_dirs: substitute into the directory names, then create them
render_dirs(directories, hash, nm, st) ==
    create_dirs(RenderAll(hash, directories), nm, st)

\* the for_each of render_files: File::create(..).unwrap() panics at the first
\* path that cannot be created, leaving the files created before it
RECURSIVE create_files(_, _, _)
create_files(substitutions, nm, st) ==
    IF substitutions = <<>> THEN st
    ELSE LET s == PathJoin(nm, Head(substitutions))
             p == Segments(s)
         IN IF CanCreateFile(st.fs, s)
            THEN create_files(Tail(substitutions), nm,
                    [st EXCEPT !.fs = FileCreate(st.fs, p),
                               !.log = Append(st.log, Event("files", "create", p, TRUE))])
            ELSE [st EXCEPT !.ok = FALSE,
                            !.log = Append(st.log, Event("files", "create", p, FALSE))]

\* the list returned holds the paths joined to the target root
render_files_joined(fileList, hash, nm, st) ==
    LET substitutions == RenderAll(hash, fileList)
        after == create_files(substitutions, nm,
                              [fs |-> st.fs, log |-> st.log, ok |-> TRUE])
    IN [fs |-> after.fs, log |-> after.log, ok |-> after.ok,
        data |-> [i \in DOMAIN substitutions |-> PathJoin(nm, substitutions[i])]]

\* render_files: the state after the call, and the VecBuilder it returns
render_files(fileList, hash, nm, st) ==
    LET substitutions == RenderAll(hash, fileList)
        after == create_files(substitutions, nm,
                              [fs |-> st.fs, log |-> st.log, ok |-> TRUE])
    IN [fs |-> after.fs, log |-> after.log, ok |-> after.ok, data |-> substitutions]

\* render_file: write one built-in text; exits when the file cannot be created
render_file(static_template, nm, filename, hash, stage, st) ==
    LET contents == HashRender(hash, static_template)
        path == PathJoin(nm, filename)
        p == Segments(path)
    IN IF CanCreateFile(st.fs, path)
       THEN [fs |-> FileWrite(FileCreate(st.fs, p), p, contents, st.w),
             log |-> st.log \o <<Event(stage, "create", p, TRUE),
                                 Event(stage, "write", p, st.w = "full")>>,
             ok |-> TRUE]
       ELSE [fs |-> st.fs,
             log |-> Append(st.log, Event(stage, "create", p, FALSE)),
             ok |-> FALSE]

\* the key of a template source: its path as written in the manifest
SourceOf(entry) == RawText(entry)

\* the read loop of render_templates: stops at the first unreadable source
RECURSIVE read_templates(_, _, _, _)
read_templates(templates, srcs, stage, st) ==
    IF templates = <<>> THEN st
    ELSE LET src == SourceOf(Head(templates))
         IN IF src \in DOMAIN srcs
            THEN read_templates(Tail(templates), srcs, stage,
                    [st EXCEPT !.log = Append(st.log, Event(stage, "read", Segments(src), TRUE)),
                               !.read = Append(st.read, srcs[src])])
            ELSE [st EXCEPT !.ok = FALSE,
                            !.log = Append(st.log, Event(stage, "read", Segments(src), FALSE))]

\* the write loop of render_templates: stops at the first destination that
\* cannot be created; scripts get mode 0o755
RECURSIVE write_templates(_, _, _, _, _)
write_templates(templates_named, substitutions, executable, stage, st) ==
    IF templates_named = <<>> \/ substitutions = <<>> THEN st
    ELSE LET s == Head(templates_named)
             p == Segments(s)
             written == FileWrite(FileCreate(st.fs, p), p, Head(substitutions), st.w)
         IN IF CanCreateFile(st.fs, s)
            THEN write_templates(Tail(templates_named), Tail(substitutions),
                    executable, stage,
                    [st EXCEPT !.fs = IF executable
                                      THEN SetPermissions(written, p, Mode755, st.foreign)
                                      ELSE written,
                               !.log = st.log \o <<Event(stage, "create", p, TRUE),
                                                   Event(stage, "write", p, st.w = "full")>>])
            ELSE [st EXCEPT !.ok = FALSE,
                            !.log = Append(st.log, Event(stage, "create", p, FALSE))]

\* a string without tokens, as a template string
RECURSIVE Literal(_)
Literal(s) == IF s = <<>> THEN <<>> ELSE <<L(Head(s))>> \o Literal(Tail(s))

\* templates_new: name.join(file) for every entry, not yet substituted
RECURSIVE JoinAll(_, _)
JoinAll(nm, templates) ==
    IF templates = <<>> THEN <<>>
    ELSE <<Literal(nm) \o <<L("/")>> \o Head(templates)>> \o JoinAll(nm, Tail(templates))

\* one loop: each source is read and its destination written before the next
\* source is read
RECURSIVE render_templates_interleaved(_, _, _, _, _, _, _)
render_templates_interleaved(srcs, nm, hash, templates, executable, stage, st) ==
    IF ~templates.some \/ templates.v = <<>>
    THEN [fs |-> st.fs, log |-> st.log, ok |-> TRUE, failed |-> "none"]
    ELSE LET rd == read_templates(<<Head(templates.v)>>, srcs, stage,
                      [log |-> st.log, ok |-> TRUE, read |-> <<>>])
             wr == write_templates(RenderAll(hash, JoinAll(nm, <<Head(templates.v)>>)),
                      RenderAll(hash, rd.read), executable, stage,
                      [fs |-> st.fs, log |-> rd.log, ok |-> TRUE, w |-> st.w,
                       foreign |-> st.foreign])
         IN IF ~rd.ok
            THEN [fs |-> st.fs, log |-> rd.log, ok |-> FALSE, failed |-> "read"]
            ELSE IF ~wr.ok
            THEN [fs |-> wr.fs, log |-> wr.log, ok |-> FALSE, failed |-> "write"]
            ELSE render_templates_interleaved(srcs, nm, hash,
                    [some |-> TRUE, v |-> Tail(templates.v)], executable, stage,
                    [st EXCEPT !.fs = wr.fs, !.log = wr.log])

\* render_templates: read every source, substitute into names and contents,
\* write every destination
render_templates(srcs, nm, hash, templates, executable, stage, st) ==
    IF ~templates.some THEN [fs |-> st.fs, log |-> st.log, ok |-> TRUE, failed |-> "none"]
    ELSE LET rd == read_templates(templates.v, srcs, stage,
                      [log |-> st.log, ok |-> TRUE, read |-> <<>>])
             wr == write_templates(RenderAll(hash, JoinAll(nm, templates.v)),
                      RenderAll(hash, rd.read), executable, stage,
                      [fs |-> st.fs, log |-> rd.log, ok |-> TRUE, w |-> st.w,
                       foreign |-> st.foreign])
         IN IF ~rd.ok
            THEN [fs |-> st.fs, log |-> rd.log, ok |-> FALSE, failed |-> "read"]
            ELSE [fs |-> wr.fs, log |-> wr.log, ok |-> wr.ok,
                  failed |-> IF wr.ok THEN "none" ELSE "write"]

----------------------------------------------------------------------------
(* src/src/types.rs, src/src/includes.rs *)

\* exit statuses passed to std::process::exit; a panic ends the process with 101
ExitNotFound == 3840

ExitWrite == 3841

ExitPanic == 101

ExitOk == 0

\* std::process::exit(1) of Config::from_path
ExitFailure == 1

RUNNING == -1

\* the status a waiting parent reads on POSIX: the low 8 bits of the status
\* given to std::process::exit
ObservedStatus(status) == status % 256

\* License, deserialized with rename_all = "SCREAMING_SNAKE_CASE", other -> Unknown
ParseLicense(raw) ==
    CASE raw = NONE -> NONE
      [] raw = "BSD3" -> "Bsd3"
      [] raw = "BSD" -> "Bsd"
      [] raw = "GPL3" -> "Gpl3"
      [] raw = "MIT" -> "Mit"
      [] raw = "ALL_RIGHTS_RESERVED" -> "AllRightsReserved"
      [] OTHER -> "Unknown"

\* impl Display for License
LicenseDisplay(l) ==
    CASE l = "Bsd3" -> <<"BSD3">>
      [] l = "Bsd" -> <<"BSD">>
      [] l = "Gpl3" -> <<"GPL3">>
      [] l = "Mit" -> <<"MIT">>
      [] l = "AllRightsReserved" -> <<"All Rights Reserved">>
      [] OTHER -> <<"Unknown License">>

\* an unrecognized tool taken for git
ParseVersionControlDefaultGit(raw) ==
    CASE raw = NONE -> NONE
      [] raw = "hg" -> "Hg"
      [] raw = "mercurial" -> "Mercurial"
      [] raw = "pijul" -> "Pijul"
      [] raw = "darcs" -> "Darcs"
      [] OTHER -> "Git"

\* VersionControl, deserialized with rename_all = "snake_case", other -> Unknown
ParseVersionControl(raw) ==
    CASE raw = NONE -> NONE
      [] raw = "git" -> "Git"
      [] raw = "hg" -> "Hg"
      [] raw = "mercurial" -> "Mercurial"
      [] raw = "pijul" -> "Pijul"
      [] raw = "darcs" -> "Darcs"
      [] OTHER -> "Unknown"

\* the built-in texts, by the name of their constant
BuiltIn ==
    [BSD3 |-> <<L("BSD3 (c) "), V("year"), L(" "), V("name")>>,
     BSD |-> <<L("BSD (c) "), V("year"), L(" "), V("name")>>,
     GPL3 |-> <<L("GPL3 "), V("project"), L(" (c) "), V("year"), L(" "), V("name")>>,
     MIT |-> <<L("MIT (c) "), V("year"), L(" "), V("name")>>,
     ALL_RIGHTS_RESERVED |-> <<L("(c) "), V("year"), L(" "), V("name"), L(" all rights reserved")>>,
     README |-> <<L("# "), V("project"), L(" "), V("version"), L(" "), V("license")>>]

----------------------------------------------------------------------------
(* init_helper: resolution and the substitution context *)

\* the project name given on the command line: the target directory
name == <<"my", "_", "app">>

\* Path::new(name): the target root
Root == Segments(name)

now == [year |-> 2026, month |-> 11, day |-> 1]

Cap == [my |-> "My", app |-> "App"]

\* case::to_capitalized: the first letter in upper case
to_capitalized(s) == IF s = <<>> THEN s ELSE <<Cap[Head(s)]>> \o Tail(s)

\* heck::to_upper_camel_case: words capitalized, separators dropped
RECURSIVE to_upper_camel_case(_)
to_upper_camel_case(s) ==
    IF s = <<>> THEN <<>>
    ELSE (IF Head(s) = "_" THEN <<>> ELSE <<Cap[Head(s)]>>)
            \o to_upper_camel_case(Tail(s))

\* "{month}-{day}-{year}" of month0(), day0() and year()
formatted_date ==
    <<ToString(now.month - 1), "-", ToString(now.day - 1), "-", ToString(now.year)>>

\* the global license preferred over the project-specific one
ResolveLicenseGlobalFirst(proj, conf) ==
    OptionOr(ParseLicense(conf.license), ParseLicense(proj.license))

\* util.rs: prefer project-specific license over global
ResolveLicense(proj, conf) ==
    OptionOr(ParseLicense(proj.license), ParseLicense(conf.license))

\* util.rs: the built-in text of the resolved license, none for None and Unknown
LicenseContents(l) ==
    CASE l = "Bsd3" -> "BSD3"
      [] l = "Bsd" -> "BSD"
      [] l = "Mit" -> "MIT"
      [] l = "Gpl3" -> "GPL3"
      [] l = "AllRightsReserved" -> "ALL_RIGHTS_RESERVED"
      [] OTHER -> NONE

\* lib.rs: the (license_contents, license_name) of a license string
LibLicenseMatch(l) ==
    CASE l = "BSD3" -> [contents |-> "BSD3", name |-> <<"BSD3">>]
      [] l = "BSD" -> [contents |-> "BSD", name |-> <<"BSD">>]
      [] l = "MIT" -> [contents |-> "MIT", name |-> <<"MIT">>]
      [] l = "GPL3" -> [contents |-> "GPL3", name |-> <<"GLP3">>]
      [] l = "AllRightsReserved" -> [contents |-> "BSD3", name |-> <<"AllRightsReserved">>]
      [] OTHER -> [contents |-> "ALL_RIGHTS_RESERVED", name |-> <<"AllRightsReserved">>]

\* lib.rs: the license string that is matched: the manifest's, else the global one
LibResolveLicense(proj, conf) ==
    IF IsSome(proj.license) THEN proj.license ELSE conf.license

\* lib.rs: (license_contents, license_name)
LibLicense(l) ==
    IF IsSome(l) THEN LibLicenseMatch(l) ELSE [contents |-> NONE, name |-> <<>>]

\* the version of the manifest's config, else "0.1.0"
Version(proj) ==
    IF proj.config.some /\ IsSome(proj.config.version)
    THEN <<proj.config.version>> ELSE <<"0.1.0">>

GithubUsername(conf) ==
    IF conf.author.some /\ IsSome(conf.author.github_username)
    THEN <<conf.author.github_username>> ELSE <<>>

\* the string-valued entries of a custom key table, inserted one by one
InsertCustom(hash, table) ==
    [x \in DOMAIN hash \cup {k \in DOMAIN table : table[k].t = "str"} |->
        IF x \in DOMAIN table /\ table[x].t = "str" THEN table[x] ELSE hash[x]]

\* global keys first, then project-specific
CustomKeysGlobalFirst(proj, conf) ==
    InsertCustom(InsertCustom(<<>>, conf.custom_keys), proj.custom_keys)

\* project-specific keys first, then global
CustomKeys(proj, conf) == InsertCustom(InsertCustom(<<>>, proj.custom_keys), conf.custom_keys)

\* the reserved keys both orchestrators always insert
InsertReserved(hash, proj, conf) ==
    LET a == conf.author
        h1 == HashInsert(hash, "project", Str(name))
        h2 == HashInsert(h1, "Project", Str(to_capitalized(name)))
        h3 == HashInsert(h2, "ProjectCamelCase", Str(to_upper_camel_case(name)))
        h4 == HashInsert(h3, "year", Str(<<ToString(now.year)>>))
        h5 == HashInsert(h4, "version", Str(Version(proj)))
        h6 == HashInsert(h5, "github_username", Str(GithubUsername(conf)))
        h7 == HashInsert(h6, "date", Str(formatted_date))
        h8 == HashInsert(h7, "name", Str(IF a.some THEN <<a.name>> ELSE <<>>))
    IN HashInsert(h8, "email", Str(IF a.some THEN <<a.email>> ELSE <<>>))

\* util.rs: "license" is inserted only when a license was resolved
UtilKeys(proj, conf) ==
    LET h == InsertReserved(CustomKeys(proj, conf), proj, conf)
        l == ResolveLicense(proj, conf)
    IN IF IsSome(l) THEN HashInsert(h, "license", Str(LicenseDisplay(l))) ELSE h

\* lib.rs: "license" is always inserted, as license_name
LibKeys(proj, conf) ==
    HashInsert(InsertReserved(CustomKeys(proj, conf), proj, conf), "license",
               Str(LibLicense(LibResolveLicense(proj, conf)).name))

\* util.rs: project_config.and_then(|c| c.version_control).or(config.version_control)
ResolveVersionControl(proj, conf) ==
    OptionOr(IF proj.config.some THEN ParseVersionControl(proj.config.version_control)
             ELSE NONE,
             ParseVersionControl(conf.version_control))

\* lib.rs: the global tool is looked at only when the manifest has no config
LibResolveVersionControl(proj, conf) ==
    IF proj.config.some THEN ParseVersionControl(proj.config.version_control)
    ELSE ParseVersionControl(conf.version_control)

----------------------------------------------------------------------------
(* src/src/repo.rs *)

\* the shell command of git_init, hg_init, pijul_init and darcs_init
ShellCommand(tool) ==
    CASE tool = "Git" -> <<"cd ">> \o name \o <<"&&", "git init && git add *">>
      [] tool \in {"Hg", "Mercurial"} -> <<"cd ">> \o name \o <<"&&", "hg init && hg add *">>
      [] tool = "Pijul" -> <<"cd ">> \o name \o <<"&&", "pijul init && pijul add **">>
      [] tool = "Darcs" -> <<"cd ">> \o name \o <<"&&", "darcs init && darcs add **">>
      [] OTHER -> <<>>

NoVcs == [action |-> "none", program |-> NONE, cmd |-> <<>>, child |-> "none", status |-> RUNNING]

\* Command::new("sh").arg("-c").arg(cmd).spawn() returned Ok: a child is running
Spawned(tool) ==
    [action |-> "spawn", program |-> "sh", cmd |-> ShellCommand(tool),
     child |-> "running", status |-> RUNNING]

\* the Unknown arm: a warning only
Warned == [NoVcs EXCEPT !.action = "warn"]

----------------------------------------------------------------------------
(* The inputs of a run *)

Some(v) == [some |-> TRUE, v |-> v]

NoneVec == [some |-> FALSE, v |-> <<>>]

NoConfig == [some |-> FALSE, version_control |-> NONE, version |-> NONE]

NoFiles == [files |-> NoneVec, directories |-> NoneVec, templates |-> NoneVec, scripts |-> NoneVec]

DefaultProject ==
    [license |-> NONE, with_readme |-> NONE, files |-> NoFiles, config |-> NoConfig,
     custom_keys |-> <<>>]

Ann == [some |-> TRUE, name |-> "Ann", email |-> "ann@example.org", github_username |-> NONE]

DefaultConfig ==
    [version_control |-> NONE, author |-> Ann, license |-> NONE, custom_keys |-> <<>>]

RawLicenses == {"BSD3", "BSD", "GPL3", "MIT", "AllRightsReserved", "ALL_RIGHTS_RESERVED", "WTFPL"}

RawTools == {"git", "hg", "mercurial", "pijul", "darcs", "svn"}

\* the sequences over S of length at most n
SeqsUpTo(S, n) == UNION {[1..m -> S] : m \in 0..n}

\* the tables over the given keys with values from the given set
Tables(ks, values) == UNION {[d -> values] : d \in SUBSET ks}

\* states of the target when the run starts
Under(segments) == Root \o segments

FsAbsent == [dirs |-> {}, files |-> <<>>]

FsEmptyDir == [dirs |-> {Root}, files |-> <<>>]

FsIsFile == [dirs |-> {}, files |-> (Root :> [content |-> <<"text">>, mode |-> ModeDefault])]

FsPopulated ==
    [dirs |-> {Root, Under(<<<<"a">>>>)},
     files |-> (Under(<<<<"a">>, <<"f.", "rs">>>>) :> [content |-> <<"old">>, mode |-> Mode755])
               @@ (Under(<<<<"keep">>>>) :> [content |-> <<"kept">>, mode |-> ModeDefault])]

\* a populated target shared with another user, who owns run.sh and lets the
\* group write it
FsShared ==
    [FsPopulated EXCEPT !.files =
        @ @@ (Under(<<<<"run.sh">>>>) :>
                [content |-> <<"theirs">>, mode |-> {"ur", "uw", "gr", "gw", "or"}])]

OwnedByOthers(target) == IF target = FsShared THEN {Under(<<<<"run.sh">>>>)} ELSE {}

\* directory and file entries of the manifests
DirA == <<L("a")>>

DirAB == <<L("a"), L("/"), L("b")>>

DirExt == <<V("ext")>>

FileAF == <<L("a"), L("/"), L("f."), V("ext")>>

FileABG == <<L("a"), L("/"), L("b"), L("/"), L("g")>>

FileExt == <<V("ext")>>

DirChoices == {DirA, DirAB, DirExt}

FileChoices == {FileAF, FileABG, FileExt}

\* template and script entries, and the contents of their sources
TemplateT == <<L("a"), L("/"), L("t."), V("ext")>>

TemplateU == <<L("u")>>

TemplateF == <<L("a"), L("/"), L("f."), V("ext")>>

ScriptS == <<L("run.sh")>>

SourceContents ==
    (SourceOf(TemplateT) :> <<L("name="), V("project"), L(" files="), V("files")>>)
    @@ (SourceOf(TemplateU) :> <<L("license="), V("license")>>)
    @@ (SourceOf(TemplateF) :> <<L("fn "), V("project")>>)
    @@ (SourceOf(ScriptS) :> <<L("#!/bin/sh "), V("ext")>>)

\* the readable sources: any subset of the sources may be missing
SourceSets == {[x \in d |-> SourceContents[x]] : d \in SUBSET (DOMAIN SourceContents)}

AllSources == [x \in DOMAIN SourceContents |-> SourceContents[x]]

OptSeqs(S, n) == {NoneVec} \cup {Some(q) : q \in SeqsUpTo(S, n)}

ExtRs == ("ext" :> Str(<<"rs">>))

\* the steps that write contents, and what a write can come to
WritingStages == {"license", "readme", "templates", "scripts"}

WriteOutcomes == {"full", "short", "failed"}

AllWritten == [stage \in WritingStages |-> "full"]

\* a file main reads: missing, unreadable, malformed, or valid with contents v
FileOf(state, v) == [state |-> state, v |-> v]

\* no run of the manifest has completed before this one
FirstRun == [ran |-> FALSE, fs |-> [dirs |-> {}, files |-> <<>>]]

\* the files from which main loaded the given manifest and settings
LoadedFrom(proj, conf) ==
    [config |-> FileOf("valid", conf), local |-> FileOf("valid", proj),
     global |-> FileOf("missing", proj)]

InitRunWith(v, proj, conf, f, srcs, target, w) ==
    /\ variant = v
    /\ project = proj
    /\ config = conf
    /\ force = f
    /\ sources = srcs
    /\ fs0 = target
    /\ writes = w
    /\ foreign = OwnedByOthers(target)
    /\ disk = LoadedFrom(proj, conf)
    /\ previous = FirstRun
    /\ fs = target
    /\ pc = "start"
    /\ license = NONE
    /\ license_contents = NONE
    /\ keys = <<>>
    /\ files = <<>>
    /\ version_control = NONE
    /\ vcs = NoVcs
    /\ exit = RUNNING
    /\ log = <<>>

\* a run in which every write is complete
InitRun(v, proj, conf, f, srcs, target) ==
    InitRunWith(v, proj, conf, f, srcs, target, AllWritten)

\* manifests of directories and files only, into every kind of target
InitTree ==
    \E v \in {"util", "lib"}, f \in BOOLEAN,
       target \in {FsAbsent, FsEmptyDir, FsPopulated, FsIsFile},
       D \in OptSeqs(DirChoices, MaxDirs), F \in OptSeqs(FileChoices, MaxFiles),
       ck \in {<<>>, ExtRs} :
        InitRun(v, [DefaultProject EXCEPT !.files.directories = D, !.files.files = F,
                                          !.custom_keys = ck],
                DefaultConfig, f, AllSources, target)

\* every pair of manifest and global license
InitLicense ==
    \E v \in {"util", "lib"}, pl \in RawLicenses \cup {NONE}, gl \in RawLicenses \cup {NONE},
       target \in {FsAbsent, FsIsFile}, readme \in {NONE, "true", "false"} :
        InitRun(v, [DefaultProject EXCEPT !.license = pl, !.with_readme = readme],
                [DefaultConfig EXCEPT !.license = gl], TRUE, AllSources, target)

\* every combination of manifest config and global version control
InitVersionControl ==
    \E v \in {"util", "lib"}, pv \in RawTools \cup {NONE}, gv \in RawTools \cup {NONE},
       c \in BOOLEAN, ver \in {NONE, "1.2.3"} :
        InitRun(v, [DefaultProject EXCEPT
                        !.config = IF c THEN [some |-> TRUE, version_control |-> pv,
                                              version |-> ver]
                                   ELSE NoConfig],
                [DefaultConfig EXCEPT !.version_control = gv], FALSE, AllSources, FsAbsent)

\* custom key tables of the manifest and of the global settings
InitCustomKeys ==
    \E v \in {"util", "lib"}, pl \in {NONE, "MIT"},
       pt \in Tables({"ext", "license", "files"}, {Str(<<"m">>), NonStr}),
       gt \in Tables({"ext", "license", "files"}, {Str(<<"g">>), NonStr}) :
        InitRun(v, [DefaultProject EXCEPT
                        !.license = pl, !.custom_keys = pt, !.with_readme = "true",
                        !.files.directories =
                            Some(<<<<L("e"), V("ext")>>, <<L("l"), V("license")>>>>),
                        !.files.files = Some(<<<<L("f"), V("files")>>>>),
                        !.files.templates = Some(<<TemplateU>>)],
                [DefaultConfig EXCEPT !.custom_keys = gt], FALSE, AllSources, FsAbsent)

\* templates and scripts, with readable and unreadable sources
InitTemplates ==
    \E v \in {"util", "lib"}, srcs \in SourceSets,
       T \in OptSeqs({TemplateT, TemplateU}, MaxTemplates),
       S \in OptSeqs({ScriptS}, MaxTemplates),
       D \in {NoneVec, Some(<<DirA>>)},
       a \in {Ann, [Ann EXCEPT !.github_username = "ann"], [Ann EXCEPT !.some = FALSE]} :
        /\ v = "lib" => a.some
        /\ InitRun(v, [DefaultProject EXCEPT
                        !.license = "MIT", !.with_readme = "true",
                        !.files.directories = D, !.files.templates = T,
                        !.files.scripts = S, !.custom_keys = ExtRs,
                        !.files.files = Some(<<FileExt>>)],
                   [DefaultConfig EXCEPT !.author = a, !.version_control = "git"],
                   FALSE, srcs, FsAbsent)

\* writes that fail or come up short, into a new and into a populated target
InitWrites ==
    \E v \in {"util", "lib"}, w \in [WritingStages -> WriteOutcomes],
       target \in {FsAbsent, FsPopulated, FsShared},
       T \in OptSeqs({TemplateT, TemplateF}, MaxTemplates),
       S \in OptSeqs({ScriptS}, MaxTemplates) :
        InitRunWith(v, [DefaultProject EXCEPT
                            !.license = "MIT", !.with_readme = "true",
                            !.files.directories = Some(<<DirA>>), !.files.templates = T,
                            !.files.scripts = S, !.custom_keys = ExtRs,
                            !.files.files = Some(<<FileExt>>)],
                    [DefaultConfig EXCEPT !.version_control = "hg"],
                    TRUE, AllSources, target, w)

\* batches of two templates, with readable and unreadable sources
InitBatch ==
    \E v \in {"util", "lib"}, srcs \in SourceSets,
       T \in {<<TemplateT, TemplateU>>, <<TemplateU, TemplateT>>, <<TemplateU, TemplateF>>},
       S \in {NoneVec, Some(<<ScriptS>>)} :
        InitRun(v, [DefaultProject EXCEPT
                        !.license = "MIT", !.with_readme = "true",
                        !.files.directories = Some(<<DirA>>), !.files.templates = Some(T),
                        !.files.scripts = S, !.custom_keys = ExtRs,
                        !.files.files = Some(<<FileExt>>)],
                DefaultConfig, FALSE, srcs, FsAbsent)

Init ==
    \/ InitTree
    \/ InitLicense
    \/ InitVersionControl
    \/ InitCustomKeys
    \/ InitTemplates
    \/ InitWrites
    \/ InitBatch

----------------------------------------------------------------------------
(* init_helper, step by step *)

\* the directories rendered after the templates
AfterDirsLate(step) ==
    CASE step = "start" -> "check"
      [] step = "check" -> "root"
      [] step = "root" -> "files"
      [] step = "files" -> "license"
      [] step = "license" -> "readme"
      [] step = "readme" -> "insert"
      [] step = "insert" -> "templates"
      [] step = "templates" -> "dirs"
      [] step = "dirs" -> "scripts"
      [] step = "scripts" -> "vcs"
      [] step = "vcs" -> "return"
      [] step = "wait" -> "return"
      [] OTHER -> "done"

\* the file list inserted after the templates are rendered
AfterInsertLate(step) ==
    CASE step = "start" -> "check"
      [] step = "check" -> "root"
      [] step = "root" -> "dirs"
      [] step = "dirs" -> "files"
      [] step = "files" -> "license"
      [] step = "license" -> "readme"
      [] step = "readme" -> "templates"
      [] step = "templates" -> "insert"
      [] step = "insert" -> "scripts"
      [] step = "scripts" -> "vcs"
      [] step = "vcs" -> "return"
      [] step = "wait" -> "return"
      [] OTHER -> "done"

\* the order of the statements of init_helper
After(step) ==
    CASE step = "start" -> "check"
      [] step = "check" -> "root"
      [] step = "root" -> "dirs"
      [] step = "dirs" -> "files"
      [] step = "files" -> "license"
      [] step = "license" -> "readme"
      [] step = "readme" -> "insert"
      [] step = "insert" -> "templates"
      [] step = "templates" -> "scripts"
      [] step = "scripts" -> "vcs"
      [] step = "vcs" -> "return"
      [] step = "wait" -> "return"
      [] OTHER -> "done"

\* the statement is done and the run goes on
Continue == pc' = After(pc) /\ exit' = exit

\* the failure is reported but the next statement still runs
ExitLater(status) == pc' = After(pc) /\ exit' = status

\* process::exit(status), or a panic
Exit(status) == pc' = "exited" /\ exit' = status

\* everything up to the check of the target: resolution and the context
BuildKeys ==
    /\ pc = "start"
    /\ license' = IF variant = "util" THEN ResolveLicense(project, config)
                  ELSE LibResolveLicense(project, config)
    /\ license_contents' = IF variant = "util"
                           THEN LicenseContents(ResolveLicense(project, config))
                           ELSE LibLicense(LibResolveLicense(project, config)).contents
    /\ keys' = IF variant = "util" THEN UtilKeys(project, config)
               ELSE LibKeys(project, config)
    /\ Continue
    /\ UNCHANGED <<inputs, fs, files, version_control, vcs, log>>

\* if Path::new(name).exists() && !force { exit(0x0f00) }
CheckExists ==
    /\ pc = "check"
    /\ IF PathExists(fs, Root) /\ ~force THEN Exit(ExitNotFound) ELSE Continue
    /\ UNCHANGED <<inputs, fs, license, license_contents, keys, files,
                   version_control, vcs, log>>

\* let _ = fs::create_dir(name)
CreateRoot ==
    /\ pc = "root"
    /\ fs' = CreateDir(fs, Root)
    /\ log' = Append(log, Event("root", "create_dir", Root, CanCreateDir(fs, Root)))
    /\ Continue
    /\ UNCHANGED <<inputs, license, license_contents, keys, files, version_control, vcs>>

\* if let Some(directories) = project_files.directories { render_dirs(..) }
RenderDirs ==
    /\ pc = "dirs"
    /\ LET r == render_dirs(project.files.directories.v, keys, name,
                            [fs |-> fs, log |-> log])
       IN IF project.files.directories.some
          THEN fs' = r.fs /\ log' = r.log
          ELSE UNCHANGED <<fs, log>>
    /\ Continue
    /\ UNCHANGED <<inputs, license, license_contents, keys, files, version_control, vcs>>

\* let files = match project_files.files { Some(files) => render_files(..), .. }
RenderFiles ==
    /\ pc = "files"
    /\ LET r == render_files(project.files.files.v, keys, name, [fs |-> fs, log |-> log])
       IN IF project.files.files.some
          THEN /\ fs' = r.fs
               /\ log' = r.log
               /\ IF r.ok
                  THEN files' = r.data /\ Continue
                  ELSE files' = files /\ Exit(ExitPanic)
          ELSE /\ files' = <<>>
               /\ Continue
               /\ UNCHANGED <<fs, log>>
    /\ UNCHANGED <<inputs, license, license_contents, keys, version_control, vcs>>

\* if let Some(license) = license_contents { render_file(license, name, "LICENSE", ..) }
EmitLicense ==
    /\ pc = "license"
    /\ IF IsSome(license_contents)
       THEN LET r == render_file(BuiltIn[license_contents], name, <<"LICENSE">>, keys,
                                 "license", [fs |-> fs, log |-> log, w |-> writes["license"]])
            IN /\ fs' = r.fs
               /\ log' = r.log
               /\ IF r.ok THEN Continue ELSE Exit(ExitWrite)
       ELSE Continue /\ UNCHANGED <<fs, log>>
    /\ UNCHANGED <<inputs, license, license_contents, keys, files, version_control, vcs>>

\* README.md written unless the manifest says false
EmitReadmeUnlessFalse ==
    /\ pc = "readme"
    /\ IF project.with_readme # "false"
       THEN LET r == render_file(BuiltIn["README"], name, <<"README.md">>, keys,
                                 "readme", [fs |-> fs, log |-> log, w |-> "full"])
            IN /\ fs' = r.fs
               /\ log' = r.log
               /\ IF r.ok THEN Continue ELSE Exit(ExitWrite)
       ELSE Continue /\ UNCHANGED <<fs, log>>
    /\ UNCHANGED <<inputs, license, license_contents, keys, files, version_control, vcs>>

\* if project.with_readme { render_file(includes::README, name, "README.md", ..) }
EmitReadme ==
    /\ pc = "readme"
    /\ IF project.with_readme = "true"
       THEN LET r == render_file(BuiltIn["README"], name, <<"README.md">>, keys,
                                 "readme", [fs |-> fs, log |-> log, w |-> writes["readme"]])
            IN /\ fs' = r.fs
               /\ log' = r.log
               /\ IF r.ok THEN Continue ELSE Exit(ExitWrite)
       ELSE Continue /\ UNCHANGED <<fs, log>>
    /\ UNCHANGED <<inputs, license, license_contents, keys, files, version_control, vcs>>

\* keys = keys.insert("files", files)
InsertFiles ==
    /\ pc = "insert"
    /\ keys' = HashInsert(keys, "files", Vec(files))
    /\ Continue
    /\ UNCHANGED <<inputs, fs, license, license_contents, files, version_control,
                   vcs, log>>

\* one call of render_templates: exit(0x0f00) when a source cannot be opened,
\* exit(0x0f01) when a destination cannot be created
CallRenderTemplates(templates, executable, stage) ==
    LET r == render_templates(sources, name, keys, templates, executable, stage,
                              [fs |-> fs, log |-> log, w |-> writes[stage],
                               foreign |-> foreign])
    IN /\ fs' = r.fs
       /\ log' = r.log
       /\ CASE r.failed = "read" -> Exit(ExitNotFound)
            [] r.failed = "write" -> Exit(ExitWrite)
            [] OTHER -> Continue

\* render_templates(&project.path, name, &keys, project_files.templates, false)
RenderTemplates ==
    /\ pc = "templates"
    /\ CallRenderTemplates(project.files.templates, FALSE, "templates")
    /\ UNCHANGED <<inputs, license, license_contents, keys, files, version_control, vcs>>

\* render_templates(&project.path, name, &keys, project_files.scripts, true)
RenderScripts ==
    /\ pc = "scripts"
    /\ CallRenderTemplates(project.files.scripts, TRUE, "scripts")
    /\ UNCHANGED <<inputs, license, license_contents, keys, files, version_control, vcs>>

\* the resolution of the tool and the match on it: a shell is spawned for a
\* known tool (spawn may fail: exit(0x0f01)), Unknown only warns
InitVcs ==
    /\ pc = "vcs"
    /\ LET vc == IF variant = "util" THEN ResolveVersionControl(project, config)
                 ELSE LibResolveVersionControl(project, config)
       IN /\ version_control' = vc
          /\ CASE vc = NONE -> Continue /\ UNCHANGED <<vcs, log>>
               [] vc = "Unknown" -> Continue /\ vcs' = Warned /\ UNCHANGED log
               [] OTHER ->
                    \E spawn_ok \in BOOLEAN :
                        /\ log' = Append(log, Event("vcs", "spawn", Root, spawn_ok))
                        /\ IF spawn_ok
                           THEN vcs' = Spawned(vc) /\ pc' = "wait" /\ exit' = exit
                           ELSE vcs' = vcs /\ Exit(ExitWrite)
    /\ UNCHANGED <<inputs, fs, license, license_contents, keys, files>>

\* the child process ends, with any exit status
ChildExits ==
    /\ vcs.child = "running"
    /\ \E status \in {0, 1} : vcs' = [vcs EXCEPT !.child = "exited", !.status = status]
    /\ UNCHANGED <<inputs, fs, pc, license, license_contents, keys, files,
                   version_control, exit, log>>

\* the initializer returns without waiting for the child
WaitChildNoBlock ==
    /\ pc = "wait"
    /\ Continue
    /\ UNCHANGED <<inputs, fs, license, license_contents, keys, files,
                   version_control, vcs, log>>

\* c.wait_with_output() returns once the child has ended; its status is dropped
WaitChild ==
    /\ pc = "wait"
    /\ vcs.child = "exited"
    /\ Continue
    /\ UNCHANGED <<inputs, fs, license, license_contents, keys, files,
                   version_control, vcs, log>>

\* Ok(()): main returns and the process ends with status 0
Return ==
    /\ pc = "return"
    /\ pc' = After(pc)
    /\ exit' = ExitOk
    /\ UNCHANGED <<inputs, fs, license, license_contents, keys, files,
                   version_control, vcs, log>>

Next ==
    \/ BuildKeys
    \/ CheckExists
    \/ CreateRoot
    \/ RenderDirs
    \/ RenderFiles
    \/ EmitLicense
    \/ EmitReadme
    \/ InsertFiles
    \/ RenderTemplates
    \/ RenderScripts
    \/ InitVcs
    \/ ChildExits
    \/ WaitChild
    \/ Return

Spec == Init /\ [][Next]_vars

----------------------------------------------------------------------------
(* main: loading the global settings and the manifest, then init_helper *)

\* Config::default(); for lib.rs the author is the argument of init_helper
ConfigDefault(v) ==
    [version_control |-> NONE, author |-> IF v = "lib" THEN Ann ELSE [Ann EXCEPT !.some = FALSE],
     license |-> NONE, custom_keys |-> <<>>]

ConfigPath == <<<<"~">>, <<".pi.toml">>>>

LocalTemplatePath == <<<<"tpl">>, <<"template.toml">>>>

GlobalTemplatePath == <<<<"~">>, <<".pi_templates">>, <<"tpl">>, <<"template.toml">>>>

\* the open, read and parse of a file, up to the first that fails
LoadEvents(stage, path, file) ==
    CASE file.state = "missing" -> <<Event(stage, "open", path, FALSE)>>
      [] file.state = "unreadable" ->
            <<Event(stage, "open", path, TRUE), Event(stage, "read", path, FALSE)>>
      [] file.state = "malformed" ->
            <<Event(stage, "open", path, TRUE), Event(stage, "read", path, TRUE),
              Event(stage, "parse", path, FALSE)>>
      [] OTHER ->
            <<Event(stage, "open", path, TRUE), Event(stage, "read", path, TRUE),
              Event(stage, "parse", path, TRUE)>>

\* Config::from_path (types.rs): a missing file gives the defaults, a file
\* that cannot be read or parsed ends the process with status 1.
\* read_toml_config (lib.rs): a missing or unreadable file gives the defaults,
\* a file that cannot be parsed ends the process with 0x0f00
LoadConfig ==
    /\ pc = "config"
    /\ log' = log \o LoadEvents("config", ConfigPath, disk.config)
    /\ CASE disk.config.state = "valid" ->
                config' = disk.config.v /\ pc' = "manifest" /\ exit' = exit
         [] disk.config.state = "missing" ->
                config' = ConfigDefault(variant) /\ pc' = "manifest" /\ exit' = exit
         [] disk.config.state = "unreadable" /\ variant = "lib" ->
                config' = ConfigDefault(variant) /\ pc' = "manifest" /\ exit' = exit
         [] OTHER ->
                /\ config' = config
                /\ Exit(IF variant = "util" THEN ExitFailure ELSE ExitNotFound)
    /\ UNCHANGED <<variant, project, force, sources, fs0, writes, foreign, disk,
                   previous, fs,
                   license, license_contents, keys, files, version_control, vcs>>

\* Project::from_path (types.rs) and read_toml_dir (lib.rs): the manifest in
\* the given directory, else the one in ~/.pi_templates; exit(0x0f00) when
\* neither can be opened or the one opened cannot be read or parsed (lib.rs
\* panics when it cannot be read)
LoadProject ==
    /\ pc = "manifest"
    /\ LET local == disk.local.state # "missing"
           file == IF local THEN disk.local ELSE disk.global
           attempts == (IF local THEN <<>>
                        ELSE <<Event("manifest", "open", LocalTemplatePath, FALSE)>>)
                       \o LoadEvents("manifest",
                              IF local THEN LocalTemplatePath ELSE GlobalTemplatePath, file)
       IN /\ log' = log \o attempts
          /\ CASE file.state = "valid" ->
                    project' = file.v /\ pc' = "start" /\ exit' = exit
               [] file.state = "unreadable" /\ variant = "lib" ->
                    project' = project /\ Exit(ExitPanic)
               [] OTHER -> project' = project /\ Exit(ExitNotFound)
    /\ UNCHANGED <<variant, config, force, sources, fs0, writes, foreign, disk,
                   previous, fs,
                   license, license_contents, keys, files, version_control, vcs>>

\* the settings files and the manifests main may find
ConfigFiles ==
    {FileOf(st, DefaultConfig) : st \in {"missing", "unreadable", "malformed"}}
    \cup {FileOf("valid", c) :
            c \in {DefaultConfig, [DefaultConfig EXCEPT !.version_control = "hg"],
                   [DefaultConfig EXCEPT !.license = "BSD"]}}

FullProject ==
    [DefaultProject EXCEPT
        !.license = "MIT", !.with_readme = "true",
        !.files.directories = Some(<<DirA>>), !.files.files = Some(<<FileExt>>),
        !.files.templates = Some(<<TemplateT>>), !.files.scripts = Some(<<ScriptS>>),
        !.custom_keys = ExtRs]

TreeProject ==
    [DefaultProject EXCEPT !.files.directories = Some(<<DirA, DirAB>>),
                           !.config = [some |-> TRUE, version_control |-> "darcs",
                                       version |-> NONE]]

ManifestFiles ==
    {FileOf(st, DefaultProject) : st \in {"missing", "unreadable", "malformed"}}
    \cup {FileOf("valid", FullProject), FileOf("valid", TreeProject)}

InitMain ==
    \E v \in {"util", "lib"}, cf \in ConfigFiles, lf \in ManifestFiles, gf \in ManifestFiles,
       f \in BOOLEAN, target \in {FsAbsent, FsPopulated} :
        /\ variant = v
        /\ disk = [config |-> cf, local |-> lf, global |-> gf]
        /\ config = DefaultConfig
        /\ project = DefaultProject
        /\ force = f
        /\ sources = AllSources
        /\ fs0 = target
        /\ writes = AllWritten
        /\ foreign = {}
        /\ previous = FirstRun
        /\ fs = target
        /\ pc = "config"
        /\ license = NONE
        /\ license_contents = NONE
        /\ keys = <<>>
        /\ files = <<>>
        /\ version_control = NONE
        /\ vcs = NoVcs
        /\ exit = RUNNING
        /\ log = <<>>

NextMain ==
    \/ LoadConfig
    \/ LoadProject
    \/ Next

SpecMain == InitMain /\ [][NextMain]_vars

----------------------------------------------------------------------------
(* Re-invocation: init_helper called again on the tree a completed run left *)

\* a second call with the same name, manifest and settings, with force set
Reinvoke ==
    /\ pc = "done"
    /\ ~previous.ran
    /\ previous' = [ran |-> TRUE, fs |-> fs]
    /\ force' = TRUE
    /\ fs0' = fs
    /\ pc' = "start"
    /\ license' = NONE
    /\ license_contents' = NONE
    /\ keys' = <<>>
    /\ files' = <<>>
    /\ version_control' = NONE
    /\ vcs' = NoVcs
    /\ exit' = RUNNING
    /\ log' = <<>>
    /\ UNCHANGED <<variant, project, config, sources, writes, foreign, disk, fs>>

NextAgain ==
    \/ Reinvoke
    \/ Next

SpecAgain == Init /\ [][NextAgain]_vars

----------------------------------------------------------------------------
(* Properties *)

\* the target as the run found it
TargetExisted == Root \in fs0.dirs \/ Root \in DOMAIN fs0.files

BeforeCheck == pc \in {"start", "check"}

\* C1: when the target exists and force is unset the run exits with 0x0f00
\* at the check, with the file system as it was found, nothing attempted and
\* no VCS action; nothing is touched before the check; when force is set or
\* the target does not exist the run goes on to create the target root
C1_ExistingTargetAborts ==
    /\ BeforeCheck => fs = fs0 /\ log = <<>> /\ vcs = NoVcs
    /\ (TargetExisted /\ ~force /\ ~BeforeCheck) =>
            /\ pc = "exited"
            /\ exit = 3840
            /\ fs = fs0
            /\ log = <<>>
            /\ vcs = NoVcs
    /\ ((~TargetExisted \/ force) /\ ~BeforeCheck) =>
            \/ pc = "root" /\ exit = RUNNING /\ log = <<>>
            \/ log # <<>> /\ log[1] = Event("root", "create_dir", Root, ~TargetExisted)

C1_Witness ==
    /\ pc = "exited"
    /\ exit = ExitNotFound
    /\ ~force
    /\ fs0 = FsPopulated
    /\ project.files.files.some

StageRank(stage) ==
    CASE stage = "root" -> 0
      [] stage = "dirs" -> 1
      [] stage = "files" -> 2
      [] stage = "license" -> 3
      [] stage = "readme" -> 4
      [] stage = "templates" -> 5
      [] stage = "scripts" -> 6
      [] stage = "vcs" -> 7

StagesOf(l) == {l[i].stage : i \in DOMAIN l}

\* C2: the operations of a run happen in the order root, directories, files,
\* LICENSE, README, templates, scripts, VCS; every declared directory has been
\* attempted before anything of the templates or scripts is read or written
C2_StepsInOrder ==
    /\ \A i, j \in DOMAIN log :
            i < j => StageRank(log[i].stage) <= StageRank(log[j].stage)
    /\ \A j \in DOMAIN log :
            log[j].stage \in {"templates", "scripts", "vcs"} =>
                Cardinality({i \in 1..(j - 1) : log[i].stage = "dirs"})
                    = Len(project.files.directories.v)
    /\ \A j \in DOMAIN log :
            log[j].stage \in {"files", "license", "readme"} =>
                Cardinality({i \in 1..(j - 1) : log[i].stage = "dirs"})
                    = Len(project.files.directories.v)

C2_Witness ==
    /\ pc = "done"
    /\ StagesOf(log) = {"root", "dirs", "files", "license", "readme", "templates",
                        "scripts", "vcs"}


\* the tool the manifest names, and the tool the settings give
ManifestTool == IF project.config.some THEN project.config.version_control ELSE NONE

ExpectedTool == IF ManifestTool # NONE THEN ManifestTool ELSE config.version_control

VcsStepTaken ==
    \/ pc \in {"wait", "return", "done"}
    \/ pc = "exited" /\ "vcs" \in StagesOf(log)

\* C3: the resolved version control tool is the manifest's
\* config.version_control when present, otherwise the global one, otherwise
\* none and the VCS step does nothing; also for a manifest whose config has
\* no version_control
C3_VersionControlPrecedence ==
    VcsStepTaken =>
        /\ version_control = ParseVersionControl(ExpectedTool)
        /\ ExpectedTool = NONE <=> vcs.action = "none" /\ "vcs" \notin StagesOf(log)

\* the license string the settings give
ChosenLicense == IF project.license # NONE THEN project.license ELSE config.license

\* C4: the resolved license is the manifest's license when present, otherwise
\* the global one, otherwise none; when the manifest names a license, known or
\* not, the text to emit and the "license" key are those of the manifest's
\* license whatever the global license is
C4_LicensePrecedence ==
    pc # "start" =>
        /\ license = IF variant = "util" THEN ParseLicense(ChosenLicense) ELSE ChosenLicense
        /\ project.license # NONE =>
            /\ license_contents =
                    IF variant = "util" THEN LicenseContents(ParseLicense(project.license))
                    ELSE LibLicenseMatch(project.license).contents
            /\ "license" \in DOMAIN keys
            /\ keys["license"].s =
                    IF variant = "util" THEN LicenseDisplay(ParseLicense(project.license))
                    ELSE LibLicenseMatch(project.license).name
        /\ (project.license = NONE /\ config.license = NONE) => license_contents = NONE

C4_Witness ==
    /\ pc = "done"
    /\ variant = "util"
    /\ project.license = "WTFPL"
    /\ config.license = "MIT"
    /\ license = "Unknown"
    /\ "license" \notin StagesOf(log)

ReservedKeys ==
    {"project", "Project", "ProjectCamelCase", "year", "version", "github_username",
     "date", "name", "email", "license", "files"}

StrKeys(table) == {k \in DOMAIN table : table[k].t = "str"}

\* C5: a custom key with a string value in both tables, not a reserved name,
\* is bound to the global table's value; with a string value in one table
\* only, to that table's value
C5_GlobalCustomKeyWins ==
    pc # "start" =>
        \A k \in (StrKeys(project.custom_keys) \cup StrKeys(config.custom_keys))
                    \ ReservedKeys :
            /\ k \in DOMAIN keys
            /\ keys[k] = IF k \in StrKeys(config.custom_keys)
                         THEN config.custom_keys[k] ELSE project.custom_keys[k]

C5_Witness ==
    /\ pc = "done"
    /\ "ext" \in StrKeys(project.custom_keys)
    /\ "ext" \in StrKeys(config.custom_keys)
    /\ project.custom_keys["ext"] # config.custom_keys["ext"]
    /\ Under(<<<<"e", "g">>>>) \in fs.dirs

\* a path or a content is about to be rendered with the keys as they are
Rendering ==
    \/ pc = "dirs" /\ project.files.directories.v # <<>>
    \/ pc = "files" /\ project.files.files.v # <<>>
    \/ pc = "license" /\ IsSome(license_contents)
    \/ pc = "readme" /\ project.with_readme = "true"
    \/ pc = "templates" /\ project.files.templates.v # <<>>
    \/ pc = "scripts" /\ project.files.scripts.v # <<>>

\* C6: whenever a path or a content is rendered, no reserved name renders to
\* the value a custom key table gives it
C6_ReservedKeysNotShadowed ==
    Rendering =>
        \A k \in ReservedKeys :
            /\ k \in StrKeys(project.custom_keys) =>
                    ValueText(keys, k) # project.custom_keys[k].s
            /\ k \in StrKeys(config.custom_keys) =>
                    ValueText(keys, k) # config.custom_keys[k].s

\* the spellings of the five known licenses in the TOML files
KnownLicenseNames == {"BSD3", "BSD", "GPL3", "MIT", "AllRightsReserved", "ALL_RIGHTS_RESERVED"}

LicensePath == Under(<<<<"LICENSE">>>>)

\* C7: when the license the settings give is absent or not a known license,
\* the LICENSE step does nothing: no LICENSE file is created or attempted
C7_UnknownLicenseSkipped ==
    ChosenLicense \notin KnownLicenseNames =>
        /\ "license" \notin StagesOf(log)
        /\ LicensePath \notin DOMAIN fs.files


\* a manifest of directories and files only, and nothing else to emit
TreeOnly ==
    /\ project.files.templates.v = <<>>
    /\ project.files.scripts.v = <<>>
    /\ project.with_readme # "true"
    /\ ChosenLicense = NONE
    /\ ExpectedTool = NONE

EmptyTarget == fs0 \in {FsAbsent, FsEmptyDir}

\* the substituted paths of the manifest's directories and files
DirString(i) == HashRender(keys, project.files.directories.v[i])

DirPath(i) == Segments(PathJoin(name, DirString(i)))

FileString(i) == HashRender(keys, project.files.files.v[i])

FilePath(i) == Segments(PathJoin(name, FileString(i)))

DirPaths == {DirPath(i) : i \in DOMAIN project.files.directories.v}

FilePaths == {FilePath(i) : i \in DOMAIN project.files.files.v}

TreeIsExact ==
    /\ fs.dirs = {Root} \cup DirPaths
    /\ DOMAIN fs.files = FilePaths
    /\ \A p \in DOMAIN fs.files : fs.files[p].content = <<>>

RunEnded == pc \in {"done", "exited"} /\ log # <<>>

\* C8 as claimed: for every D and F, a run of a manifest of directories D
\* and files F only into an empty target ends with exactly the substituted
\* paths of D as directories and of F as empty files
C8_TreeIsExactForEveryD == (TreeOnly /\ EmptyTarget /\ RunEnded) => TreeIsExact

\* every directory is below the root or an earlier directory of D; every file
\* is a file name below the root or a directory of D, and no directory of D
WellNested ==
    /\ \A i \in DOMAIN project.files.directories.v :
            /\ DirPath(i) # Root
            /\ Parent(DirPath(i)) \in {Root} \cup {DirPath(j) : j \in 1..(i - 1)}
    /\ \A i \in DOMAIN project.files.files.v :
            /\ FileString(i) # <<>>
            /\ FileString(i)[Len(FileString(i))] # "/"
            /\ FilePath(i) \notin DirPaths
            /\ Parent(FilePath(i)) \in {Root} \cup DirPaths

\* C8 as amended: when the lists are well nested the run does not abort and,
\* once the files are created, the tree is exactly D as directories and F as
\* empty files
C8_TreeIsExactWhenNested ==
    (TreeOnly /\ EmptyTarget /\ (force \/ ~TargetExisted) /\ pc # "start" /\ WellNested) =>
        /\ pc # "exited"
        /\ pc \notin {"check", "root", "dirs", "files"} => TreeIsExact

C8_Witness ==
    /\ pc = "done"
    /\ TreeOnly
    /\ fs0 = FsAbsent
    /\ WellNested
    /\ project.files.directories.v = <<DirA, DirAB>>
    /\ project.files.files.v = <<FileAF, FileABG>>
    /\ Under(<<<<"a">>, <<"b">>>>) \in fs.dirs
    /\ Under(<<<<"a">>, <<"f.", "rs">>>>) \in DOMAIN fs.files

\* the events a step appends to the log
Appended(i) == log'[Len(log) + i]

\* C9: the directory step attempts every entry of the manifest in order; an
\* entry is created exactly when, at its turn, it does not exist and its parent
\* is a directory, nothing else changes, and the run goes on to the files
C9_DirsBestEffort ==
    [][(pc = "dirs" /\ pc' # "dirs") =>
        LET D == project.files.directories.v
            made(i) == fs.dirs \cup {Appended(j).path : j \in {j \in 1..(i - 1) : Appended(j).ok}}
        IN /\ pc' = "files"
           /\ exit' = exit
           /\ Len(log') = Len(log) + Len(D)
           /\ SubSeq(log', 1, Len(log)) = log
           /\ \A i \in DOMAIN D :
                /\ Appended(i).stage = "dirs"
                /\ Appended(i).op = "create_dir"
                /\ Appended(i).path = DirPath(i)
                /\ Appended(i).ok <=>
                        /\ DirPath(i) \notin made(i)
                        /\ DirPath(i) \notin DOMAIN fs.files
                        /\ Parent(DirPath(i)) \in made(i)
           /\ fs'.dirs = fs.dirs \cup {Appended(i).path : i \in {i \in DOMAIN D : Appended(i).ok}}
           /\ fs'.files = fs.files
           /\ files' = files
      ]_vars

C9_Witness ==
    /\ pc = "files"
    /\ project.files.directories.v = <<DirAB, DirA>>
    /\ fs0 = FsAbsent
    /\ Len(log) = 3
    /\ ~log[2].ok
    /\ log[3].ok
    /\ fs.dirs = {Root, Under(<<<<"a">>>>)}

\* C10: when render_files returns, the list it returns has the substituted
\* relative path of the i-th entry as its i-th element, every entry is an
\* empty file under the target root, and nothing else has changed
C10_RenderFilesReturnsPaths ==
    [][(pc = "files" /\ pc' = "license") =>
        LET F == project.files.files.v
        IN /\ Len(files') = Len(F)
           /\ \A i \in DOMAIN F :
                /\ files'[i] = FileString(i)
                /\ FilePath(i) \in DOMAIN fs'.files
                /\ fs'.files[FilePath(i)].content = <<>>
           /\ \A q \in DOMAIN fs'.files :
                q \notin FilePaths => q \in DOMAIN fs.files /\ fs'.files[q] = fs.files[q]
           /\ DOMAIN fs.files \subseteq DOMAIN fs'.files
           /\ fs'.dirs = fs.dirs
      ]_vars

C10_Witness ==
    /\ pc = "license"
    /\ fs0 = FsPopulated
    /\ project.files.files.v = <<FileExt, FileAF>>
    /\ files = <<<<"rs">>, <<"a", "/", "f.", "rs">>>>
    /\ fs.files[Under(<<<<"a">>, <<"f.", "rs">>>>)].content = <<>>
    /\ fs.files[Under(<<<<"keep">>>>)].content = <<"kept">>


\* the list of the File Materializer is bound under "files"
EngineFilesBound == "files" \in DOMAIN keys /\ keys["files"].t = "vec"

\* C11: while directories, files, LICENSE and README.md are rendered the
\* context has no list under "files"; the list is bound by the one step
\* between README.md and the templates, which touches nothing else; templates
\* and scripts are rendered with "files" bound to the list render_files returned
C11_FilesBoundForTemplatesOnly ==
    [][/\ pc \in {"start", "check", "root", "dirs", "files", "license", "readme", "insert"}
            => ~EngineFilesBound
       /\ pc \in {"templates", "scripts"} =>
            /\ EngineFilesBound
            /\ keys["files"].l = files
            /\ keys' = keys
       /\ (~EngineFilesBound /\ EngineFilesBound') =>
            /\ pc = "insert"
            /\ pc' = "templates"
            /\ fs' = fs
            /\ log' = log
      ]_vars

C11_Witness ==
    /\ pc = "scripts"
    /\ project.files.templates.v = <<TemplateT>>
    /\ files = <<<<"rs">>>>
    /\ keys["files"].l = files
    /\ Under(<<<<"a">>, <<"t.", "rs">>>>) \in DOMAIN fs.files
    /\ fs.files[Under(<<<<"a">>, <<"t.", "rs">>>>)].content
            = <<"name=", "my", "_", "app", " files=", "rs">>
    /\ Under(<<<<"README.md">>>>) \in DOMAIN fs.files


\* C12: a failed read, create or write in the Template Renderer is the last
\* operation of the run, and the run has exited
C12_TemplateFailuresAreFatal ==
    \A i \in DOMAIN log :
        (log[i].stage \in {"templates", "scripts"} /\ ~log[i].ok) =>
            /\ i = Len(log)
            /\ pc = "exited"


\* the destinations of the manifest's scripts and templates
ScriptPaths ==
    {Segments(PathJoin(name, HashRender(keys, project.files.scripts.v[i]))) :
        i \in DOMAIN project.files.scripts.v}

TemplatePaths ==
    {Segments(PathJoin(name, HashRender(keys, project.files.templates.v[i]))) :
        i \in DOMAIN project.files.templates.v}

\* the permissions of a path the engine has not changed
ModeAsFound(p) == IF p \in DOMAIN fs0.files THEN fs0.files[p].mode ELSE ModeDefault

\* C13: after a run that completes every script destination can be executed
\* by owner, group and others, and every destination that is a template's
\* only has the permissions it was found or created with
C13_ScriptsExecutable ==
    pc = "done" =>
        /\ \A p \in ScriptPaths :
                /\ p \in DOMAIN fs.files
                /\ {"ux", "gx", "ox"} \subseteq fs.files[p].mode
        /\ \A p \in TemplatePaths \ ScriptPaths :
                /\ p \in DOMAIN fs.files
                /\ fs.files[p].mode = ModeAsFound(p)


\* the spawn attempts of the run
SpawnEvents == {i \in DOMAIN log : log[i].op = "spawn"}

\* the init and add-all operations of the external tools
ToolSequence ==
    [Hg |-> "hg init && hg add *", Mercurial |-> "hg init && hg add *",
     Pijul |-> "pijul init && pijul add **", Darcs |-> "darcs init && darcs add **"]

\* C14: once the tool is resolved, Git has spawned no process; Mercurial,
\* Darcs and Pijul have made exactly one spawn attempt, of one shell command
\* that enters the target directory and runs the tool's init and add-all
C14_VcsDispatch ==
    /\ version_control = "Git" => SpawnEvents = {} /\ vcs.action # "spawn"
    /\ version_control \in DOMAIN ToolSequence =>
            /\ Cardinality(SpawnEvents) = 1
            /\ vcs.action = "spawn" =>
                    /\ vcs.program = "sh"
                    /\ vcs.cmd = <<"cd ">> \o name \o <<"&&", ToolSequence[version_control]>>


\* the tool string the orchestrator reads: util.rs falls back to the global
\* settings, lib.rs only when the manifest has no config
RequestedTool ==
    IF variant = "util" THEN ExpectedTool
    ELSE IF project.config.some THEN project.config.version_control
    ELSE config.version_control

UnknownRequested == RequestedTool \notin {NONE, "git", "hg", "mercurial", "pijul", "darcs"}

\* C15: for an unrecognized tool string the VCS step resolves Unknown, only
\* warns, spawns nothing and leaves the file system as it is, and the run
\* then returns success
C15_UnknownToolWarnsOnly ==
    [][(UnknownRequested /\ pc \in {"vcs", "return"}) =>
            /\ fs' = fs
            /\ log' = log
            /\ vcs'.action = "warn"
            /\ vcs'.child = "none"
            /\ version_control' = "Unknown"
            /\ pc = "vcs" => pc' = "return" /\ exit' = exit
            /\ pc = "return" => pc' = "done" /\ exit' = 0
      ]_vars

C15_Witness ==
    /\ pc = "done"
    /\ exit = 0
    /\ RequestedTool = "svn"
    /\ vcs.action = "warn"
    /\ SpawnEvents = {}
    /\ Root \in fs.dirs

\* C16: after a successful spawn the run is either waiting for the child or
\* the child has ended; it never exits with a failure, and it ends with
\* status 0 whatever the status of the child
C16_WaitsForChild ==
    vcs.action = "spawn" =>
        /\ pc \in {"wait", "return", "done"}
        /\ pc \in {"return", "done"} => vcs.child = "exited" /\ vcs.status \in {0, 1}
        /\ pc = "done" => exit = 0

C16_Witness ==
    /\ pc = "done"
    /\ vcs.action = "spawn"
    /\ vcs.child = "exited"
    /\ vcs.status = 1
    /\ exit = 0


\* how a run failed, told by its last operation
LastEvent == log[Len(log)]

NotFoundFailure ==
    /\ pc = "exited"
    /\ \/ log = <<>>
       \/ LastEvent.op = "read" /\ ~LastEvent.ok

WriteFailure ==
    /\ pc = "exited"
    /\ log # <<>>
    /\ LastEvent.op = "create"
    /\ LastEvent.stage \in {"license", "readme", "templates", "scripts"}
    /\ ~LastEvent.ok

SpawnFailure ==
    /\ pc = "exited"
    /\ log # <<>>
    /\ LastEvent.op = "spawn"
    /\ ~LastEvent.ok

\* C17: the status a calling script observes after a not-found failure (the
\* target exists, a template source cannot be opened) is neither the status
\* of success nor the status observed after a write failure
C17_ObservedStatusDistinguishes ==
    NotFoundFailure =>
        /\ ObservedStatus(exit) # ObservedStatus(0)
        /\ ObservedStatus(exit) # ObservedStatus(3841)

\* C18: the status of a run that failed to spawn the VCS tool is not the
\* status of a write failure, nor that of any other failure class
C18_SpawnFailureStatusDistinct ==
    SpawnFailure => exit \notin {3841, 3840, 101}


\* the manifest file main reads, and whether it can be loaded
ManifestFile == IF disk.local.state # "missing" THEN disk.local ELSE disk.global

LoadingDone == pc \notin {"config", "manifest"}

\* C19: a settings file that is missing or cannot be parsed never ends the
\* run: the settings are the defaults and the manifest is loaded next; a
\* manifest that is found in neither directory or cannot be parsed ends the
\* run with the file system as it was found
C19_LoadingFailures ==
    /\ (disk.config.state \in {"missing", "malformed"} /\ pc # "config") =>
            /\ ~(pc = "exited" /\ LastEvent.stage = "config")
            /\ pc = "manifest" => config = ConfigDefault(variant)
    /\ (ManifestFile.state \in {"missing", "malformed"} /\ LoadingDone) =>
            /\ pc = "exited"
            /\ fs = fs0


\* the known license a license string names for the orchestrator that reads
\* it: util.rs spells the fifth ALL_RIGHTS_RESERVED, lib.rs AllRightsReserved
KnownLicense ==
    CASE ChosenLicense \in {"BSD3", "BSD", "GPL3", "MIT"} -> ChosenLicense
      [] ChosenLicense = "ALL_RIGHTS_RESERVED" /\ variant = "util" -> "ALL_RIGHTS_RESERVED"
      [] ChosenLicense = "AllRightsReserved" /\ variant = "lib" -> "ALL_RIGHTS_RESERVED"
      [] OTHER -> NONE

DisplayName ==
    CASE KnownLicense = "ALL_RIGHTS_RESERVED" ->
            IF variant = "util" THEN <<"All Rights Reserved">> ELSE <<"AllRightsReserved">>
      [] OTHER -> <<KnownLicense>>

\* C20: when one of the five known licenses is resolved and LICENSE has been
\* written, its contents are the built-in text of that license with the
\* context substituted, and the context's "license" is the display name of
\* that license
C20_LicenseTextMatches ==
    (pc = "readme" /\ KnownLicense # NONE /\ writes["license"] = "full") =>
        /\ LicensePath \in DOMAIN fs.files
        /\ fs.files[LicensePath].content = HashRender(keys, BuiltIn[KnownLicense])
        /\ keys["license"] = Str(DisplayName)


ReadmePath == Under(<<<<"README.md">>>>)

AfterReadme == pc \in {"insert", "templates", "scripts", "vcs", "wait", "return", "done"}

\* C21: without with_readme = true README.md is neither attempted nor
\* present; with it, once the README step is passed README.md exists, and
\* when its write was complete it holds the built-in README template with the
\* context substituted, whether or not a license was resolved
C21_ReadmeIffRequested ==
    /\ project.with_readme # "true" =>
            /\ "readme" \notin StagesOf(log)
            /\ ReadmePath \notin DOMAIN fs.files
    /\ (project.with_readme = "true" /\ AfterReadme) =>
            /\ ReadmePath \in DOMAIN fs.files
            /\ writes["readme"] = "full" =>
                    fs.files[ReadmePath].content
                        = <<"# ">> \o name \o <<" ">> \o ValueText(keys, "version")
                            \o <<" ">> \o ValueText(keys, "license")

C21_Witness ==
    /\ pc = "done"
    /\ project.with_readme = "true"
    /\ ChosenLicense = NONE
    /\ LicensePath \notin DOMAIN fs.files
    /\ fs.files[ReadmePath].content = <<"# ", "my", "_", "app", " ", "0.1.0", " ">>


\* the second run has ended
SecondRunEnded == previous.ran /\ pc \in {"done", "exited"}

\* C22 as claimed: a second run with force set on the tree of a first
\* completed run does not abort in directory or file creation and, when it
\* ends, has left the tree of the first run: the same directories, and the
\* same files with the same contents and permissions
C22_ReinvocationIdempotent ==
    SecondRunEnded =>
        /\ log # <<>>
        /\ pc = "exited" => LastEvent.stage \notin {"root", "dirs", "files"}
        /\ fs = previous.fs

\* no directory of the manifest is listed before its parent
ParentsListedFirst ==
    \A i, j \in DOMAIN project.files.directories.v :
        i < j => Parent(DirPath(i)) # DirPath(j)

\* C22 as amended: the same, for manifests that list no directory before
\* its parent
C22_ReinvocationIdempotentWhenOrdered ==
    (SecondRunEnded /\ ParentsListedFirst) =>
        /\ log # <<>>
        /\ pc = "exited" => LastEvent.stage \notin {"root", "dirs", "files"}
        /\ fs = previous.fs

C22_Witness ==
    /\ SecondRunEnded
    /\ pc = "done"
    /\ project.files.directories.v = <<DirA>>
    /\ project.files.files.v = <<FileExt>>
    /\ project.files.templates.v = <<TemplateT>>
    /\ fs.files[Under(<<<<"rs">>>>)].content = <<>>
    /\ fs.files[Under(<<<<"a">>, <<"t.", "rs">>>>)].content
            = <<"name=", "my", "_", "app", " files=", "rs">>
    /\ fs = previous.fs
    /\ \E i \in DOMAIN log : log[i].stage = "dirs" /\ ~log[i].ok


\* a fatal condition: a file that cannot be created, a source that cannot be
\* opened, a tool that cannot be spawned
Fatal(e) == ~e.ok /\ e.op \in {"create", "read", "spawn"}

\* the files created by the step that is being taken
CreatedByStep == {log'[i].path : i \in {i \in (Len(log) + 1)..Len(log') :
                                            log'[i].op = "create" /\ log'[i].ok}}

\* C23: a fatal condition is the last operation of the run: the run has
\* exited with a status that is not success and without a VCS action, no step
\* follows, and the step that failed left every directory and every file of
\* the steps before it as it was
C23_FatalStopsEverything ==
    [][/\ \A i \in DOMAIN log : ~Fatal(log[i])
       /\ pc # "exited"
       /\ \A i \in DOMAIN log' : Fatal(log'[i]) =>
            /\ i = Len(log')
            /\ pc' = "exited"
            /\ exit' \notin {0, -1}
            /\ vcs' = NoVcs
       /\ pc' = "exited" =>
            /\ fs'.dirs = fs.dirs
            /\ \A p \in DOMAIN fs.files :
                    /\ p \in DOMAIN fs'.files
                    /\ p \notin CreatedByStep => fs'.files[p] = fs.files[p]
      ]_vars

C23_Witness ==
    /\ pc = "exited"
    /\ exit = 3841
    /\ LastEvent = Event("templates", "create", Under(<<<<"a">>, <<"t.", "rs">>>>), FALSE)
    /\ LicensePath \in DOMAIN fs.files
    /\ ReadmePath \in DOMAIN fs.files
    /\ Under(<<<<"rs">>>>) \in DOMAIN fs.files
    /\ vcs = NoVcs


\* C24: the context has a "license" entry exactly when the manifest or the
\* global settings name a license, and when neither does {{license}} renders
\* to the empty string, whatever the custom key tables hold
C24_LicenseKeyIffResolved ==
    pc # "start" =>
        /\ "license" \in DOMAIN keys <=> ChosenLicense # NONE
        /\ ChosenLicense = NONE => ValueText(keys, "license") = <<>>


\* a source of the templates list, of the scripts list, cannot be opened
TemplateSourceMissing ==
    \E i \in DOMAIN project.files.templates.v :
        SourceOf(project.files.templates.v[i]) \notin DOMAIN sources

ScriptSourceMissing ==
    \E i \in DOMAIN project.files.scripts.v :
        SourceOf(project.files.scripts.v[i]) \notin DOMAIN sources

\* the destinations a render_templates call has created
WrittenIn(stage) ==
    {log[i].path : i \in {i \in DOMAIN log : log[i].stage = stage /\ log[i].op = "create"}}

\* the run ended at a source of the call that could not be opened
ReadFailedIn(stage) ==
    /\ pc = "exited"
    /\ log # <<>>
    /\ LastEvent.stage = stage
    /\ LastEvent.op = "read"

\* the path is as the run found it
Untouched(p) ==
    IF p \in DOMAIN fs0.files
    THEN p \in DOMAIN fs.files /\ fs.files[p] = fs0.files[p]
    ELSE p \notin DOMAIN fs.files

\* C25: with an unreadable template source no destination of a template or of
\* a script is ever created, the run does not get past the templates, and it
\* ends with the placeholder files, LICENSE and README.md in place; with
\* readable template sources and an unreadable script source no script
\* destination is ever created, and the run ends with every template
\* destination written
C25_ReadsBeforeWrites ==
    /\ TemplateSourceMissing =>
            /\ WrittenIn("templates") = {}
            /\ WrittenIn("scripts") = {}
            /\ \A p \in TemplatePaths \cup ScriptPaths : Untouched(p)
            /\ pc \notin {"scripts", "vcs", "wait", "return", "done"}
            /\ ReadFailedIn("templates") =>
                    /\ FilePaths \subseteq DOMAIN fs.files
                    /\ IsSome(license_contents) => LicensePath \in DOMAIN fs.files
                    /\ project.with_readme = "true" => ReadmePath \in DOMAIN fs.files
    /\ (~TemplateSourceMissing /\ ScriptSourceMissing) =>
            /\ WrittenIn("scripts") = {}
            /\ \A p \in ScriptPaths : Untouched(p)
            /\ pc \notin {"vcs", "wait", "return", "done"}
            /\ ReadFailedIn("scripts") =>
                    /\ WrittenIn("templates") = TemplatePaths
                    /\ TemplatePaths \subseteq DOMAIN fs.files

C25_Witness ==
    /\ ReadFailedIn("templates")
    /\ project.files.templates.v = <<TemplateU, TemplateT>>
    /\ DOMAIN sources = {SourceOf(TemplateU), SourceOf(ScriptS), SourceOf(TemplateF)}
    /\ Len(log) > 2
    /\ log[Len(log) - 1] = Event("templates", "read", Segments(SourceOf(TemplateU)), TRUE)
    /\ Under(<<<<"u">>>>) \notin DOMAIN fs.files
    /\ ReadmePath \in DOMAIN fs.files
    /\ exit = 3840

====
